---------------------------- MODULE Spec2Model ----------------------------
(***************************************************************************)
(* A model of the MUES C extensions (src/ext):                             *)
(*   polymorphic.c / storable.c  identity exchange (#polymorph, #become)   *)
(*   blank.c                     MUES::BlankObject and its capability mask *)
(*   object.c                    abstract / abstract_arity and             *)
(*                               checkVirtualMethods                       *)
(* Every method call is one atomic step (the interpreter is single         *)
(* threaded); `last` records the call that was made and how it ended, and  *)
(* `pre` the state the call started from.                                  *)
(***************************************************************************)
EXTENDS Integers, Sequences, FiniteSets, TLC

VARIABLES
    safe,            \* $SAFE, as read by rb_safe_level() / rb_secure()
    heap,            \* object slots of the exchangeable objects: handle -> 5 words
    blank,           \* the T_DATA objects made by mues_blank_s_alloc: klass, data ptr
    mem,             \* the mues_BLANK structs handed out by mues_blank_alloc
    classData,       \* the DATA_PTR() word of the BlankObject class object itself
    written,         \* history: the newval of the last capability= that returned, per object
    superclass,      \* RCLASS(klass)->super of the classes under MUES::Object
    included,        \* the classes that include MUES::AbstractClass directly
    methods,         \* method table of each class: name -> entry
    virtualMethods,  \* the @virtualMethods instance variable of each class
    nops,            \* number of class-body statements executed so far
    last,            \* the last call: what, on which arguments, how it ended
    pre              \* the state the last call started from

vars == <<safe, heap, blank, mem, classData, written, superclass, included, methods,
          virtualMethods, nops, last, pre>>

-----------------------------------------------------------------------------
(* Bounds *)

\* Number of exchangeable objects.
MaxObj == 3

\* Number of BlankObject allocations, and of mues_BLANK structs handed out.
MaxBlank == 2

MaxStructs == 2

\* Number of class-body statements (abstract, abstract_arity, def) executed.
MaxOps == 2

-----------------------------------------------------------------------------
(* Results of a call: no exception, or the exception class and its message *)

Ok == [exc |-> "none", msg |-> ""]

Raise(e, m) == [exc |-> e, msg |-> m]

SafeLevels == 0..4

\* What a call may have changed.
Snapshot ==
    [heap |-> heap, blank |-> blank, mem |-> mem, classData |-> classData,
     methods |-> methods, virtualMethods |-> virtualMethods]

-----------------------------------------------------------------------------
(* Identity exchange: polymorphic.c and storable.c                         *)

\* A VALUE: a pointer to an object slot, or a value that has no slot. A
\* Fixnum is an immediate; nil is a special constant but no immediate.
Ref(i) == [kind |-> "heap", id |-> i]

Fixnum5 == [kind |-> "fixnum", id |-> 5]

Nil == [kind |-> "nil", id |-> 0]

Handles == {Ref(i) : i \in 1..MaxObj}

Values == Handles \cup {Fixnum5, Nil}

\* The classes the slots may name, with their superclasses.
Super(k) ==
    CASE k = "PolySub" -> "MUES::PolymorphicObject"
      [] k = "MUES::PolymorphicObject" -> "MUES::Object"
      [] k = "MUES::StorableObject" -> "MUES::Object"
      [] k = "MUES::Object" -> "Object"
      [] k = "Fixnum" -> "Object"
      [] k = "NilClass" -> "Object"
      [] k = "BlankSub" -> "MUES::BlankObject"
      [] OTHER -> ""

HeapClasses == {"MUES::PolymorphicObject", "PolySub", "MUES::StorableObject"}

RECURSIVE IsSubclass(_, _)
IsSubclass(k, c) ==
    IF k = "" THEN FALSE
    ELSE IF k = c THEN TRUE
    ELSE IsSubclass(Super(k), c)

IMMEDIATE_P(x) == x.kind = "fixnum"

SPECIAL_CONST_P(x) == x.kind \in {"fixnum", "nil"}

\* A T_DATA object, such as a BlankObject, as the argument of a call: the
\* object `id` of class klass, with its taint bit.
DataRef(id, klass, taint) ==
    [kind |-> "data", id |-> id, klass |-> klass, taint |-> taint]

\* An object slot is five words: flags, klass, iv_tbl and two more.
Slot(taint, klass, ivtbl) ==
    <<IF taint THEN {"FL_TAINT"} ELSE {}, klass, ivtbl, 0, 0>>

CLASS_OF(h, x) ==
    IF x.kind = "fixnum" THEN "Fixnum"
    ELSE IF x.kind = "nil" THEN "NilClass"
    ELSE IF x.kind = "data" THEN x.klass
    ELSE h[x.id][2]

\* FL_TEST(x, FL_TAINT): a special constant has no flags word.
OBJ_TAINTED(h, x) ==
    IF SPECIAL_CONST_P(x) THEN FALSE
    ELSE IF x.kind = "data" THEN x.taint
    ELSE "FL_TAINT" \in h[x.id][1]

rb_obj_is_kind_of(h, x, c) == IsSubclass(CLASS_OF(h, x), c)

\* memcpy( (long *)dst, (long *)src, n * sizeof(long) ) into the slot dst.
memcpy(h, dst, src, n) ==
    [h EXCEPT ![dst] = [w \in 1..5 |-> IF w <= n THEN src[w] ELSE @[w]]]

\* A swap that copies back from the slot it has just overwritten.
ExchangeIdsNoTemp(h, self, other) ==
    LET h1 == memcpy(h, self.id, h[other.id], 5)
    IN  memcpy(h1, other.id, h1[self.id], 5)

\* The three memcpy calls through the buffer t.
ExchangeIds(h, self, other) ==
    LET t  == h[self.id]
        h1 == memcpy(h, self.id, h[other.id], 5)
    IN  memcpy(h1, other.id, t, 5)

\* The taint test without its second case (untainted receiver, tainted other).
TaintCheckOneWay(h, sf, self, other) ==
    /\ sf >= 1
    /\ \/ OBJ_TAINTED(h, self) /\ ~OBJ_TAINTED(h, other)
       \/ sf >= 4 /\ (OBJ_TAINTED(h, self) \/ OBJ_TAINTED(h, other))

\* The taint test without its $SAFE >= 4 case.
TaintCheckNoLevel4(h, sf, self, other) ==
    /\ sf >= 1
    /\ \/ OBJ_TAINTED(h, self) /\ ~OBJ_TAINTED(h, other)
       \/ ~OBJ_TAINTED(h, self) /\ OBJ_TAINTED(h, other)

\* The taint test both functions start with: TRUE when a SecurityError is raised.
TaintCheck(h, sf, self, other) ==
    /\ sf >= 1
    /\ \/ OBJ_TAINTED(h, self) /\ ~OBJ_TAINTED(h, other)
       \/ ~OBJ_TAINTED(h, self) /\ OBJ_TAINTED(h, other)
       \/ sf >= 4 /\ (OBJ_TAINTED(h, self) \/ OBJ_TAINTED(h, other))

\* #polymorph without the test that other is a PolymorphicObject.
polymorph_result_NoKindCheck(h, sf, self, other) ==
    IF TaintCheck(h, sf, self, other)
    THEN Raise("SecurityError", "Insecure: can't polymorph")
    ELSE IF IMMEDIATE_P(self) THEN Raise("TypeError", "is not boxed")
    ELSE IF IMMEDIATE_P(other) THEN Raise("TypeError", "is not boxed")
    ELSE Ok

\* #polymorph with the boxed tests made before the class test.
polymorph_result_BoxedFirst(h, sf, self, other) ==
    IF TaintCheck(h, sf, self, other)
    THEN Raise("SecurityError", "Insecure: can't polymorph")
    ELSE IF IMMEDIATE_P(self) THEN Raise("TypeError", "is not boxed")
    ELSE IF IMMEDIATE_P(other) THEN Raise("TypeError", "is not boxed")
    ELSE IF ~rb_obj_is_kind_of(h, other, "MUES::PolymorphicObject")
    THEN Raise("TypeError", "Cannot polymorph a non-polymorphic object.")
    ELSE Ok

\* How mues_polymorphic_polymorph( self, other ) ends, its checks in order.
polymorph_result(h, sf, self, other) ==
    IF TaintCheck(h, sf, self, other)
    THEN Raise("SecurityError", "Insecure: can't polymorph")
    ELSE IF ~rb_obj_is_kind_of(h, other, "MUES::PolymorphicObject")
    THEN Raise("TypeError", "Cannot polymorph a non-polymorphic object.")
    ELSE IF IMMEDIATE_P(self) THEN Raise("TypeError", "is not boxed")
    ELSE IF IMMEDIATE_P(other) THEN Raise("TypeError", "is not boxed")
    ELSE Ok

\* How storable_become( self, other ) ends, its checks in order.
become_result(h, sf, self, other) ==
    IF TaintCheck(h, sf, self, other)
    THEN Raise("SecurityError", "Insecure: can't become")
    ELSE IF ~rb_obj_is_kind_of(h, other, "MUES::StorableObject")
    THEN Raise("TypeError", "is not a storable object class")
    ELSE IF IMMEDIATE_P(self) THEN Raise("TypeError", "is not boxed")
    ELSE IF IMMEDIATE_P(other) THEN Raise("TypeError", "is not boxed")
    ELSE Ok

\* A method defined on class c is called on the instances of c only.
IsReceiver(h, x, c) == rb_obj_is_kind_of(h, x, c)

\* self.polymorph( other )
Polymorph(self, other) ==
    /\ IsReceiver(heap, self, "MUES::PolymorphicObject")
    /\ LET r == polymorph_result(heap, safe, self, other)
       IN  /\ heap' = IF r = Ok THEN ExchangeIds(heap, self, other) ELSE heap
           /\ last' = [op |-> "exchange", fn |-> "polymorph", self |-> self,
                       other |-> other, safe |-> safe, res |-> r]
    /\ pre' = Snapshot
    /\ UNCHANGED <<safe, blank, mem, classData, written, superclass, included, methods,
                   virtualMethods, nops>>

\* self.become( other )
Become(self, other) ==
    /\ IsReceiver(heap, self, "MUES::StorableObject")
    /\ LET r == become_result(heap, safe, self, other)
       IN  /\ heap' = IF r = Ok THEN ExchangeIds(heap, self, other) ELSE heap
           /\ last' = [op |-> "exchange", fn |-> "become", self |-> self,
                       other |-> other, safe |-> safe, res |-> r]
    /\ pre' = Snapshot
    /\ UNCHANGED <<safe, blank, mem, classData, written, superclass, included, methods,
                   virtualMethods, nops>>

-----------------------------------------------------------------------------
(* MUES::BlankObject: blank.c                                              *)

\* A Fixnum VALUE and the long it stands for.
INT2FIX(i) == 2 * i + 1

FIX2LONG(x) == x \div 2

LONG2FIX(i) == INT2FIX(i)

LONG2NUM(i) == INT2FIX(i)

NewVals == {INT2FIX(0), INT2FIX(5), INT2FIX(0 - 3)}

BlankClasses == {"MUES::BlankObject", "BlankSub"}

\* mues_blank_alloc(): a fresh struct, capability 0.
mues_blank_alloc == [capability |-> 0]

\* mues_blank_s_alloc( klass ): Data_Wrap_Struct( klass, 0, free, 0 ), a T_DATA
\* object whose data pointer is NULL (0).
mues_blank_s_alloc(klass) == [klass |-> klass, data |-> 0]

\* check_blank( self ) and get_blank( self ): how fetching the data pointer ends.
get_blank_result(b, self) ==
    IF b[self].klass # "MUES::BlankObject"
    THEN Raise("TypeError", "wrong argument type (expected MUES::BlankObject)")
    ELSE IF b[self].data = 0
    THEN Raise("RuntimeError", "uninitialized Blank")
    ELSE Ok

\* "initialize" as an instance method, what rb_define_method would give.
InitializeReceiversInstances(b) == {0} \cup (1..Len(b))

\* The receivers of "initialize": it is defined with rb_define_singleton_method
\* on the class object, so the class (written 0 here) is its only receiver; an
\* instance, a position of `blank`, never is.
InitializeReceivers(b) == {0}

\* mues_blank_init( self ): DATA_PTR(self) = mues_blank_alloc(). The word that
\* is written belongs to self: to an instance, or to the class object.
mues_blank_init_blank(b, self, ptr) ==
    IF self = 0 THEN b ELSE [b EXCEPT ![self].data = ptr]

mues_blank_init_class(cd, self, ptr) ==
    IF self = 0 THEN ptr ELSE cd

\* rb_secure( level ): raises when $SAFE is at or above level.
rb_secure_raises(sf, level) == level <= sf

\* How mues_blank_capability_eq( self, newval ) ends.
capability_eq_result(b, sf, self) ==
    IF get_blank_result(b, self) # Ok THEN get_blank_result(b, self)
    ELSE IF rb_secure_raises(sf, 3)
    THEN Raise("SecurityError", "Insecure operation at level")
    ELSE Ok

\* ptr->capability = FIX2LONG( newval )
capability_eq_store(m, ptr, newval) ==
    [m EXCEPT ![ptr].capability = FIX2LONG(newval)]

\* MUES::BlankObject.allocate (also the first half of .new)
BlankAlloc(klass) ==
    /\ Len(blank) < MaxBlank
    /\ blank' = Append(blank, mues_blank_s_alloc(klass))
    /\ written' = Append(written, <<>>)
    /\ last' = [op |-> "allocate", self |-> Len(blank) + 1, safe |-> safe, res |-> Ok]
    /\ pre' = Snapshot
    /\ UNCHANGED <<safe, heap, mem, classData, superclass, included, methods,
                   virtualMethods, nops>>

\* MUES::BlankObject.initialize
BlankInit(self) ==
    /\ self \in InitializeReceivers(blank)
    /\ Len(mem) < MaxStructs
    /\ mem' = Append(mem, mues_blank_alloc)
    /\ blank' = mues_blank_init_blank(blank, self, Len(mem) + 1)
    /\ classData' = mues_blank_init_class(classData, self, Len(mem) + 1)
    /\ last' = [op |-> "initialize", self |-> self, safe |-> safe, res |-> Ok]
    /\ pre' = Snapshot
    /\ UNCHANGED <<safe, heap, written, superclass, included, methods,
                   virtualMethods, nops>>

\* self.capability
Capability(self) ==
    /\ self \in 1..Len(blank)
    /\ LET r == get_blank_result(blank, self)
       IN  last' = [op |-> "capability", self |-> self, safe |-> safe, res |-> r,
                    ret |-> IF r = Ok
                            THEN LONG2NUM(mem[blank[self].data].capability)
                            ELSE 0]
    /\ pre' = Snapshot
    /\ UNCHANGED <<safe, heap, blank, mem, classData, written, superclass,
                   included, methods, virtualMethods, nops>>

\* self.capability = newval
CapabilityEq(self, newval) ==
    /\ self \in 1..Len(blank)
    /\ LET r == capability_eq_result(blank, safe, self)
       IN  /\ mem' = IF r = Ok
                     THEN capability_eq_store(mem, blank[self].data, newval)
                     ELSE mem
           /\ written' = IF r = Ok THEN [written EXCEPT ![self] = <<newval>>]
                         ELSE written
           /\ last' = [op |-> "capability=", self |-> self, newval |-> newval,
                       safe |-> safe, res |-> r,
                       ret |-> IF r = Ok
                               THEN LONG2FIX(mem'[blank[self].data].capability)
                               ELSE 0]
    /\ pre' = Snapshot
    /\ UNCHANGED <<safe, heap, blank, classData, superclass, included, methods,
                   virtualMethods, nops>>

-----------------------------------------------------------------------------
(* Abstract methods and their check: object.c                              *)

\* mues_cMuesObject, the class the walk stops at, and the end of a super chain.
Root == "MUES::Object"

NoClass == ""

\* MUES::Object, a class under it and a class under that one.
Types == {Root, "Base", "Derived"}

Names == {"m1", "m2"}

\* The arities abstract_arity is given, and those a subclass defines a method
\* with: -2 is one required argument and more accepted.
MinArities == {0, 2}

DefArities == {0 - 2, 2}

NoMethod == [body |-> "none", arity |-> 0]

\* rb_define_method( self, name, mues_dummy_method, -1 )
DummyMethod == [body |-> "mues_dummy_method", arity |-> 0 - 1]

UserMethod(arity) == [body |-> "user", arity |-> arity]

\* The classes from klass up the super chain, klass first.
RECURSIVE Ancestors(_, _)
Ancestors(sc, klass) ==
    IF klass = NoClass THEN <<>> ELSE <<klass>> \o Ancestors(sc, sc[klass])

\* rb_mod_include_p( self, absClass ): self or a class above it includes it.
rb_mod_include_p(sc, inc, self) ==
    \E i \in DOMAIN Ancestors(sc, self) : Ancestors(sc, self)[i] \in inc

rb_define_method(m, klass, name, entry) ==
    [m EXCEPT ![klass][name] = entry]

\* mues_abstract without the test for MUES::AbstractClass.
mues_abstract_result_NoCheck(sc, inc, self) == Ok

\* How mues_abstract( argc, argv, self ) ends.
mues_abstract_result(sc, inc, self) ==
    IF ~rb_mod_include_p(sc, inc, self)
    THEN Raise("ScriptError", "Cannot declare abstract methods for a concrete class")
    ELSE Ok

\* The loop of mues_abstract: a dummy method for each symbol of argv.
RECURSIVE mues_abstract_define(_, _, _)
mues_abstract_define(m, self, argv) ==
    IF argv = <<>> THEN m
    ELSE mues_abstract_define(rb_define_method(m, self, Head(argv), DummyMethod),
                              self, Tail(argv))

\* How mues_abstract_arity( argc, argv, self ) ends.
mues_abstract_arity_result(sc, inc, self, argv) ==
    IF Len(argv) # 2
    THEN Raise("ArgumentError", "wrong number of arguments")
    ELSE mues_abstract_result(sc, inc, self)

\* rb_hash_aset( hash, key, value ) on a hash kept in insertion order.
rb_hash_aset(hash, key, value) ==
    IF \E i \in DOMAIN hash : hash[i][1] = key
    THEN [i \in DOMAIN hash |-> IF hash[i][1] = key THEN <<key, value>> ELSE hash[i]]
    ELSE Append(hash, <<key, value>>)

\* The table part of mues_abstract_arity: fetch @virtualMethods or make a new
\* hash, set the entry, set the instance variable.
mues_abstract_arity_table(vm, self, symbol, arity) ==
    LET virtualMethodTable == IF vm[self].defined THEN vm[self].hash ELSE <<>>
    IN  [vm EXCEPT ![self] = [defined |-> TRUE,
                              hash |-> rb_hash_aset(virtualMethodTable, symbol, arity)]]

\* klass.instance_method( name ): the first definition up the super chain.
RECURSIVE instance_method(_, _, _, _)
instance_method(m, sc, klass, name) ==
    IF klass = NoClass THEN NoMethod
    ELSE IF m[klass][name] # NoMethod THEN m[klass][name]
    ELSE instance_method(m, sc, sc[klass], name)

\* if ( actualArity < 0 ) actualArity = abs( actualArity + 1 )
NormalizeArity(actualArity) ==
    IF actualArity < 0
    THEN (IF actualArity + 1 < 0 THEN 0 - (actualArity + 1) ELSE actualArity + 1)
    ELSE actualArity

\* How mues_check_definition( spec, klass ) ends: the comparison guards only
\* the debugging message, the rb_raise after it is not under the `if`.
mues_check_definition(m, sc, spec, klass) ==
    LET targetArity == spec[2]
        unboundMethod == instance_method(m, sc, klass, spec[1])
        actualArity == NormalizeArity(unboundMethod.arity)
        logged == targetArity > actualArity
    IN  IF unboundMethod = NoMethod
        THEN Raise("NameError", "undefined method for class")
        ELSE Raise("MUES::VirtualMethodError",
                   "Insufficient arity for overridden method")

\* rb_iterate( rb_each, virtualMethods, mues_check_definition, klass ): the
\* entries in order, the first exception ends it.
RECURSIVE rb_iterate_check(_, _, _, _)
rb_iterate_check(m, sc, hash, klass) ==
    IF hash = <<>> THEN Ok
    ELSE IF mues_check_definition(m, sc, Head(hash), klass) # Ok
    THEN mues_check_definition(m, sc, Head(hash), klass)
    ELSE rb_iterate_check(m, sc, Tail(hash), klass)

\* The loop without its step to the superclass: only klass itself is inspected.
RECURSIVE check_walk_NoSuper(_, _, _, _)
check_walk_NoSuper(m, sc, vm, klass) ==
    IF klass = NoClass \/ klass = Root THEN Ok
    ELSE IF vm[klass].defined
    THEN rb_iterate_check(m, sc, vm[klass].hash, klass)
    ELSE Ok

\* The loop of mues_check_virtual_methods from klass on.
RECURSIVE check_walk(_, _, _, _)
check_walk(m, sc, vm, klass) ==
    IF klass = NoClass \/ klass = Root THEN Ok
    ELSE LET r == IF vm[klass].defined
                  THEN rb_iterate_check(m, sc, vm[klass].hash, klass)
                  ELSE Ok
         IN  IF r # Ok THEN r ELSE check_walk(m, sc, vm, sc[klass])

\* What mues_check_definition( spec, klass ) looks at: the entry, the class it
\* asks for the method, and the arity it compares with the entry's (the one
\* its mues_debug calls print).
Compared(m, sc, spec, klass) ==
    LET unboundMethod == instance_method(m, sc, klass, spec[1])
    IN  [klass |-> klass, name |-> spec[1], targetArity |-> spec[2],
         found |-> unboundMethod # NoMethod,
         actualArity |-> NormalizeArity(unboundMethod.arity)]

\* The entries rb_iterate hands to mues_check_definition, up to the first
\* exception.
RECURSIVE rb_iterate_trace(_, _, _, _)
rb_iterate_trace(m, sc, hash, klass) ==
    IF hash = <<>> THEN <<>>
    ELSE <<Compared(m, sc, Head(hash), klass)>> \o
         (IF mues_check_definition(m, sc, Head(hash), klass) # Ok THEN <<>>
          ELSE rb_iterate_trace(m, sc, Tail(hash), klass))

\* The entries the loop of mues_check_virtual_methods consults from klass on.
RECURSIVE check_walk_trace(_, _, _, _)
check_walk_trace(m, sc, vm, klass) ==
    IF klass = NoClass \/ klass = Root THEN <<>>
    ELSE LET h == IF vm[klass].defined THEN vm[klass].hash ELSE <<>>
         IN  IF rb_iterate_check(m, sc, h, klass) # Ok
             THEN rb_iterate_trace(m, sc, h, klass)
             ELSE rb_iterate_trace(m, sc, h, klass) \o
                  check_walk_trace(m, sc, vm, sc[klass])

\* How mues_check_virtual_methods( self ) ends for an instance of klass.
mues_check_virtual_methods(m, sc, vm, klass) == check_walk(m, sc, vm, klass)

\* abstract :name, ...  in the body of class self
Abstract(self, argv) ==
    /\ nops < MaxOps
    /\ nops' = nops + 1
    /\ LET r == mues_abstract_result(superclass, included, self)
       IN  /\ methods' = IF r = Ok THEN mues_abstract_define(methods, self, argv)
                         ELSE methods
           /\ last' = [op |-> "abstract", self |-> self, argv |-> argv,
                       safe |-> safe, res |-> r]
    /\ pre' = Snapshot
    /\ UNCHANGED <<safe, heap, blank, mem, classData, written, superclass, included,
                   virtualMethods>>

\* abstract_arity :name, arity  in the body of class self
AbstractArity(self, argv) ==
    /\ nops < MaxOps
    /\ nops' = nops + 1
    /\ LET r == mues_abstract_arity_result(superclass, included, self, argv)
       IN  /\ methods' = IF r = Ok
                         THEN mues_abstract_define(methods, self, <<argv[1]>>)
                         ELSE methods
           /\ virtualMethods' =
                  IF r = Ok
                  THEN mues_abstract_arity_table(virtualMethods, self, argv[1], argv[2])
                  ELSE virtualMethods
           /\ last' = [op |-> "abstract_arity", self |-> self, argv |-> argv,
                       safe |-> safe, res |-> r]
    /\ pre' = Snapshot
    /\ UNCHANGED <<safe, heap, blank, mem, classData, written, superclass, included>>

\* def name( ... )  in the body of class klass: the override a subclass gives
DefineMethod(klass, name, arity) ==
    /\ nops < MaxOps
    /\ nops' = nops + 1
    /\ methods' = rb_define_method(methods, klass, name, UserMethod(arity))
    /\ last' = [op |-> "def", self |-> klass, name |-> name, arity |-> arity,
                safe |-> safe, res |-> Ok]
    /\ pre' = Snapshot
    /\ UNCHANGED <<safe, heap, blank, mem, classData, written, superclass, included,
                   virtualMethods>>

\* anObject.checkVirtualMethods, for an instance of klass
CheckVirtualMethods(klass) ==
    /\ last' = [op |-> "checkVirtualMethods", self |-> klass, safe |-> safe,
                res |-> mues_check_virtual_methods(methods, superclass,
                                                   virtualMethods, klass),
                consulted |-> check_walk_trace(methods, superclass,
                                               virtualMethods, klass)]
    /\ pre' = Snapshot
    /\ UNCHANGED <<safe, heap, blank, mem, classData, written, superclass, included,
                   methods, virtualMethods, nops>>

-----------------------------------------------------------------------------
(* Initial states and specifications                                       *)

AbstractArgvs == {<<"m1">>, <<"m2">>, <<"m1", "m2">>}

ArityArgvs ==
    {<<n, a>> : n \in Names, a \in MinArities} \cup {<<"m1">>} \cup {<<"m1", 2, 2>>}

NoLast == [op |-> "none", safe |-> 0, res |-> Ok]

\* An order on (class, taint), to list the objects of a heap in.
Rank(k, t) ==
    2 * (CASE k = "MUES::PolymorphicObject" -> 0
           [] k = "PolySub" -> 1
           [] OTHER -> 2) + (IF t THEN 1 ELSE 0)

\* The exchangeable objects: any class, tainted or not, each with its own
\* field storage. The handles are interchangeable, so the objects are numbered
\* in the order of Rank: every other heap is one of these with handles renamed.
InitHeap ==
    \E k \in [1..MaxObj -> HeapClasses], t \in [1..MaxObj -> BOOLEAN] :
        /\ \A i \in 1..MaxObj, j \in 1..MaxObj :
               i < j => Rank(k[i], t[i]) <= Rank(k[j], t[j])
        /\ heap = [i \in 1..MaxObj |-> Slot(t[i], k[i], i)]

OneHeap == heap = [i \in 1..MaxObj |-> Slot(FALSE, "MUES::PolymorphicObject", i)]

\* No BlankObject allocated yet.
InitBlank == blank = <<>> /\ mem = <<>> /\ classData = 0 /\ written = <<>>

\* The class hierarchy; any of the classes may include MUES::AbstractClass.
InitSuper ==
    superclass = [t \in Types |-> CASE t = "Derived" -> "Base"
                                     [] t = "Base" -> Root
                                     [] OTHER -> NoClass]

InitClasses == InitSuper /\ included \in SUBSET Types

OneClasses == InitSuper /\ included = {"Base"}

InitTables ==
    /\ methods = [t \in Types |-> [n \in Names |-> NoMethod]]
    /\ virtualMethods = [t \in Types |-> [defined |-> FALSE, hash |-> <<>>]]
    /\ nops = 0

InitLast == last = NoLast /\ pre = Snapshot

NextExchange ==
    \/ \E self \in Handles, other \in Values : Polymorph(self, other)
    \/ \E self \in Handles, other \in Values : Become(self, other)

NextBlank ==
    \/ \E klass \in BlankClasses : BlankAlloc(klass)
    \/ \E self \in {0} \cup (1..MaxBlank) : BlankInit(self)
    \/ \E self \in 1..MaxBlank : Capability(self)
    \/ \E self \in 1..MaxBlank, newval \in NewVals : CapabilityEq(self, newval)

NextContract ==
    \/ \E self \in Types, argv \in AbstractArgvs : Abstract(self, argv)
    \/ \E self \in Types, argv \in ArityArgvs : AbstractArity(self, argv)
    \/ \E klass \in Types, name \in Names, arity \in DefArities :
           DefineMethod(klass, name, arity)
    \/ \E klass \in Types : CheckVirtualMethods(klass)

\* Identity exchange alone, from every heap and every $SAFE.
InitExchange ==
    safe \in SafeLevels /\ InitHeap /\ InitBlank /\ OneClasses /\ InitTables /\ InitLast

SpecExchange == InitExchange /\ [][NextExchange]_vars

\* BlankObject alone, at every $SAFE.
InitBlankOnly ==
    safe \in SafeLevels /\ OneHeap /\ InitBlank /\ OneClasses /\ InitTables /\ InitLast

SpecBlank == InitBlankOnly /\ [][NextBlank]_vars

\* The abstract-method declarations and their check alone.
InitContract ==
    safe = 0 /\ OneHeap /\ InitBlank /\ InitClasses /\ InitTables /\ InitLast

SpecContract == InitContract /\ [][NextContract]_vars

\* Everything together.
Init ==
    safe \in SafeLevels /\ OneHeap /\ InitBlank /\ OneClasses /\ InitTables /\ InitLast

Next == NextExchange \/ NextBlank \/ NextContract

Spec == Init /\ [][Next]_vars

\* The BlankObjects next to the other operations of the extension: one
\* StorableObject and PolymorphicObjects, the BlankObjects allocated so far as
\* arguments of the exchange, and class Base declaring abstract methods.
MaskHeap ==
    heap = [i \in 1..MaxObj |->
               Slot(FALSE, IF i = 1 THEN "MUES::StorableObject"
                           ELSE "MUES::PolymorphicObject", i)]

MaskReceivers == {Ref(1), Ref(2)}

DataRefs == {DataRef(i, blank[i].klass, t) : i \in 1..Len(blank), t \in BOOLEAN}

\* $SAFE below every test, and at the level of rb_secure(3), where the taint
\* tests of the exchange are made as well.
MaskSafeLevels == {0, 3}

InitMask ==
    safe \in MaskSafeLevels /\ MaskHeap /\ InitBlank /\ OneClasses /\ InitTables /\ InitLast

NextMask ==
    \/ NextBlank
    \/ \E self \in MaskReceivers, other \in {Ref(MaxObj)} \cup DataRefs :
           Polymorph(self, other)
    \/ \E self \in MaskReceivers, other \in {Ref(MaxObj)} \cup DataRefs :
           Become(self, other)
    \/ Abstract("Base", <<"m1">>)
    \/ AbstractArity("Base", <<"m2", 2>>)
    \/ \E klass \in {"Base", "Derived"} : CheckVirtualMethods(klass)

SpecMask == InitMask /\ [][NextMask]_vars

\* mues_check_virtual_methods one turn of its loop at a time. While the call
\* is running, `last` holds the loop variable klass; the call is one C
\* function, so nothing else runs until it has returned or raised.
Idle == ~(last.op = "walk" /\ ~last.done)

\* The loop condition without the stop at mues_cMuesObject.
walk_continues_NoRootStop(klass) == klass # NoClass

\* while( klass && klass != mues_cMuesObject )
walk_continues(klass) == klass # NoClass /\ klass # Root

\* klass = CLASS_OF( self ), for an instance of class S
WalkBegin(S) ==
    /\ Idle
    /\ last' = [op |-> "walk", self |-> S, klass |-> S, done |-> FALSE,
                safe |-> safe, res |-> Ok, consulted |-> <<>>]
    /\ pre' = Snapshot
    /\ UNCHANGED <<safe, heap, blank, mem, classData, written, superclass, included,
                   methods, virtualMethods, nops>>

\* The loop condition and, when it holds, one turn of the loop: the table of
\* klass is iterated, then klass = RCLASS(klass)->super.
WalkStep ==
    /\ last.op = "walk"
    /\ ~last.done
    /\ LET klass == last.klass
           h == IF walk_continues(klass) /\ virtualMethods[klass].defined
                THEN virtualMethods[klass].hash ELSE <<>>
           r == rb_iterate_check(methods, superclass, h, klass)
           t == rb_iterate_trace(methods, superclass, h, klass)
       IN  last' = IF ~walk_continues(klass)
                   THEN [last EXCEPT !.done = TRUE]
                   ELSE IF r # Ok
                   THEN [last EXCEPT !.done = TRUE, !.res = r,
                                     !.consulted = @ \o t]
                   ELSE [last EXCEPT !.klass = superclass[klass],
                                     !.consulted = @ \o t]
    /\ UNCHANGED <<safe, heap, blank, mem, classData, written, superclass, included,
                   methods, virtualMethods, nops, pre>>

\* The declarations and the check, the check also turn by turn; every class,
\* MUES::Object too, may declare abstract methods.
InitWalk ==
    /\ safe = 0 /\ OneHeap /\ InitBlank /\ InitSuper /\ included = {Root}
    /\ InitTables /\ InitLast

NextWalk ==
    \/ Idle /\ NextContract
    \/ \E S \in Types : WalkBegin(S)
    \/ WalkStep

SpecWalk == InitWalk /\ [][NextWalk]_vars /\ WF_vars(WalkStep)

-----------------------------------------------------------------------------
(* Identity exchange: the claims                                           *)

\* The errors by the names the specification gives them.
NotBoxed == Raise("TypeError", "is not boxed")

NotExchangeable(fn) ==
    IF fn = "polymorph"
    THEN Raise("TypeError", "Cannot polymorph a non-polymorphic object.")
    ELSE Raise("TypeError", "is not a storable object class")

\* x has the identity-exchange capability that function fn asks for.
Exchangeable(h, x, fn) ==
    rb_obj_is_kind_of(h, x, IF fn = "polymorph" THEN "MUES::PolymorphicObject"
                                                ELSE "MUES::StorableObject")

\* The taint cases in which the specification has exchange fail.
CrossTaint(h, sf, a, b) == sf >= 1 /\ (OBJ_TAINTED(h, a) # OBJ_TAINTED(h, b))

TaintedForbidden(h, sf, a, b) == sf >= 4 /\ (OBJ_TAINTED(h, a) \/ OBJ_TAINTED(h, b))

ExchangeCalled == last.op = "exchange"

ExchangeSucceeded == last.op = "exchange" /\ last.res = Ok

\* C1: after a successful exchange(a, b) the record read through a is the one
\* that was behind b and the record read through b is the one that was behind
\* a; the handles are the same as before, and the record of every other object
\* is unchanged.
C1_ExchangeSwapsRecords ==
    ExchangeSucceeded =>
        /\ heap[last.self.id] = pre.heap[last.other.id]
        /\ heap[last.other.id] = pre.heap[last.self.id]
        /\ DOMAIN heap = DOMAIN pre.heap
        /\ \A i \in DOMAIN heap \ {last.self.id, last.other.id} : heap[i] = pre.heap[i]

\* A successful exchange of two different objects whose records differed in
\* taint flag, type tag and field storage.
C1_Witness ==
    /\ ExchangeSucceeded
    /\ last.self # last.other
    /\ \A w \in 1..3 : pre.heap[last.self.id][w] # pre.heap[last.other.id][w]
    /\ heap[last.self.id] # pre.heap[last.self.id]

\* C2: exchange is an involution: where exchange(a, b) has succeeded, a second
\* exchange(a, b) at the same $SAFE succeeds too and gives back, behind every
\* handle, the records of before the first call.
C2_ExchangeInvolution ==
    ExchangeSucceeded =>
        /\ (IF last.fn = "polymorph"
            THEN polymorph_result(heap, last.safe, last.self, last.other)
            ELSE become_result(heap, last.safe, last.self, last.other)) = Ok
        /\ ExchangeIds(heap, last.self, last.other) = pre.heap

\* A successful exchange, at $SAFE >= 1, of two different tainted objects of
\* different classes.
C2_Witness ==
    /\ ExchangeSucceeded
    /\ last.safe >= 1
    /\ last.self # last.other
    /\ OBJ_TAINTED(heap, last.self) /\ OBJ_TAINTED(heap, last.other)
    /\ heap[last.self.id][2] # heap[last.other.id][2]

\* C3: exchange(a, b) fails with a SecurityError whenever $SAFE >= 1 and exactly
\* one of a, b is tainted, and whenever $SAFE >= 4 and either is tainted; the
\* records are then unchanged.
C3_TaintedExchangeRefused ==
    (/\ ExchangeCalled
     /\ \/ CrossTaint(pre.heap, last.safe, last.self, last.other)
        \/ TaintedForbidden(pre.heap, last.safe, last.self, last.other))
    => (last.res.exc = "SecurityError" /\ heap = pre.heap)

\* An exchange of two tainted exchangeable objects refused at $SAFE = 4.
C3_Witness ==
    /\ ExchangeCalled
    /\ last.safe = 4
    /\ OBJ_TAINTED(pre.heap, last.self) /\ OBJ_TAINTED(pre.heap, last.other)
    /\ Exchangeable(pre.heap, last.other, last.fn)
    /\ last.res.exc = "SecurityError"

\* C4 as claimed: whatever $SAFE and the taint flags, exchange(a, b) with b
\* lacking the capability is rejected with NotExchangeable, and no record is
\* mutated.
C4_Original ==
    (ExchangeCalled /\ ~Exchangeable(pre.heap, last.other, last.fn))
    => (last.res = NotExchangeable(last.fn) /\ heap = pre.heap)

\* C4 as amended: exchange(a, b) with b lacking the capability is always
\* rejected and no record is mutated; the error is the SecurityError of the
\* taint test when that test fails (it is made first), and NotExchangeable in
\* every other case.
C4_NotExchangeableAfterTaint ==
    (ExchangeCalled /\ ~Exchangeable(pre.heap, last.other, last.fn))
    => /\ heap = pre.heap
       /\ last.res # Ok
       /\ IF \/ CrossTaint(pre.heap, last.safe, last.self, last.other)
             \/ TaintedForbidden(pre.heap, last.safe, last.self, last.other)
          THEN last.res.exc = "SecurityError"
          ELSE last.res = NotExchangeable(last.fn)

\* A tainted heap object without the capability, refused as not exchangeable
\* at $SAFE >= 1 by a tainted receiver.
C4_Witness ==
    /\ ExchangeCalled
    /\ last.other.kind = "heap"
    /\ ~Exchangeable(pre.heap, last.other, last.fn)
    /\ last.safe >= 1
    /\ OBJ_TAINTED(pre.heap, last.other)
    /\ last.res = NotExchangeable(last.fn)

\* C5 as claimed: exchange(a, b) is rejected with NotBoxed whenever either
\* argument is a value without a heap record, and no record is mutated.
C5_Original ==
    (ExchangeCalled /\ (SPECIAL_CONST_P(last.self) \/ SPECIAL_CONST_P(last.other)))
    => (last.res = NotBoxed /\ heap = pre.heap)

\* C5 as amended: exchange(a, b) with b a value without a heap record is always
\* rejected and no record is mutated, but never with NotBoxed: the error is the
\* SecurityError of the taint test when a is tainted and $SAFE >= 1, and
\* NotExchangeable otherwise. (The receiver a is an instance of the class that
\* defines the method, so it always has a heap record.)
C5_UnboxedOtherRefused ==
    /\ ExchangeCalled => ~SPECIAL_CONST_P(last.self)
    /\ (ExchangeCalled /\ SPECIAL_CONST_P(last.other))
       => /\ heap = pre.heap
          /\ last.res # NotBoxed
          /\ IF last.safe >= 1 /\ OBJ_TAINTED(pre.heap, last.self)
             THEN last.res.exc = "SecurityError"
             ELSE last.res = NotExchangeable(last.fn)

\* A Fixnum given to #polymorph and refused as not polymorphic.
C5_Witness ==
    /\ ExchangeCalled
    /\ last.fn = "polymorph"
    /\ last.other = Fixnum5
    /\ last.res = NotExchangeable("polymorph")

-----------------------------------------------------------------------------
(* MUES::BlankObject: the claims                                           *)

\* The last call was made on an instance of MUES::BlankObject itself.
OnBlankObject ==
    /\ last.op \in {"capability", "capability="}
    /\ blank[last.self].klass = "MUES::BlankObject"

\* C6 as claimed: setCapability(v) succeeds exactly when $SAFE is below 3: it
\* then returns v, and every later capability() returns v until the next
\* setCapability that succeeds; at $SAFE >= 3 it fails with a SecurityError and
\* the mask keeps its value.
C6_Original ==
    /\ (OnBlankObject /\ last.op = "capability=") =>
           IF last.safe < 3
           THEN /\ last.res = Ok
                /\ last.ret = last.newval
                /\ mem[blank[last.self].data].capability = FIX2LONG(last.newval)
           ELSE /\ last.res.exc = "SecurityError"
                /\ mem = pre.mem
    /\ (OnBlankObject /\ last.op = "capability" /\ written[last.self] # <<>>) =>
           (last.res = Ok /\ last.ret = written[last.self][1])

\* C7 as claimed: capability() on an object obtained from create() always
\* succeeds, at every $SAFE, changes nothing, and returns 0 as long as no
\* setCapability has succeeded on the object.
C7_Original ==
    (OnBlankObject /\ last.op = "capability") =>
        /\ last.res = Ok
        /\ blank = pre.blank /\ mem = pre.mem /\ classData = pre.classData
        /\ written[last.self] = <<>> => last.ret = INT2FIX(0)

-----------------------------------------------------------------------------
(* Abstract methods: the claims                                            *)

\* The errors by the names the specification gives them.
NotAbstractDeclaring ==
    Raise("ScriptError", "Cannot declare abstract methods for a concrete class")

InsufficientArity ==
    Raise("MUES::VirtualMethodError", "Insufficient arity for overridden method")

\* A type that may declare abstract methods.
AbstractDeclaring(t) == rb_mod_include_p(superclass, included, t)

\* The requirements {name, minArity} recorded on type t.
Requirements(t) ==
    {virtualMethods[t].hash[i] : i \in DOMAIN virtualMethods[t].hash}

\* t is s or a type above s.
IsAncestor(t, s) ==
    \E i \in DOMAIN Ancestors(superclass, s) : Ancestors(superclass, s)[i] = t

\* Every requirement an instance of s could be held to.
ChainRequirements(s) ==
    UNION {{<<t, r>> : r \in Requirements(t)} : t \in {u \in Types : IsAncestor(u, s)}}

\* The names the last declaration was given.
GivenNames ==
    IF last.op = "abstract"
    THEN {last.argv[i] : i \in DOMAIN last.argv}
    ELSE {last.argv[1]}

Verified == last.op = "checkVirtualMethods" /\ last.res = Ok

Rejected == last.op = "checkVirtualMethods" /\ last.res # Ok

\* C8: declaring an abstract requirement, with abstract or with abstract_arity
\* (one name and one arity), on a type that is not abstract-declaring fails
\* with NotAbstractDeclaring, installs no stub and adds no table entry.
C8_ConcreteClassCannotDeclare ==
    (/\ last.op \in {"abstract", "abstract_arity"}
     /\ last.op = "abstract_arity" => Len(last.argv) = 2
     /\ ~AbstractDeclaring(last.self))
    => /\ last.res = NotAbstractDeclaring
       /\ methods = pre.methods
       /\ \A n \in GivenNames : methods[last.self][n] # DummyMethod
       /\ virtualMethods = pre.virtualMethods
       /\ ~virtualMethods[last.self].defined

\* abstract_arity :m1, 2 refused on a type that is not abstract-declaring,
\* while another type is.
C8_Witness ==
    /\ last.op = "abstract_arity"
    /\ Len(last.argv) = 2
    /\ ~AbstractDeclaring(last.self)
    /\ \E t \in Types : AbstractDeclaring(t)
    /\ last.res = NotAbstractDeclaring

\* C9 as claimed, for a requirement {name, minArity} recorded on a type T under
\* the root that is the only requirement on the chain of S, and S a type under
\* T overriding name with normalized arity a: verification of an instance of S fails with
\* InsufficientArity when a < minArity and succeeds when a >= minArity.
C9_Original ==
    \A T \in Types \ {Root} : \A r \in Requirements(T) :
        (/\ last.op = "checkVirtualMethods"
         /\ IsAncestor(T, last.self)
         /\ last.self # T
         /\ ChainRequirements(last.self) = {<<T, r>>}
         /\ methods[last.self][r[1]].body = "user")
        => IF NormalizeArity(methods[last.self][r[1]].arity) < r[2]
           THEN last.res = InsufficientArity
           ELSE last.res = Ok

\* C10 as claimed: for every type T, the root included, with a requirement
\* {name, minArity}, verification of an instance of a type under T that does
\* not override name is Rejected, never Verified.
C10_Original ==
    \A T \in Types : \A r \in Requirements(T) :
        (/\ last.op = "checkVirtualMethods"
         /\ IsAncestor(T, last.self)
         /\ last.self # T
         /\ instance_method(methods, superclass, last.self, r[1]) = DummyMethod)
        => Rejected

\* C10 as amended: for every type T other than the root with a requirement
\* {name, minArity}, verification of an instance of T or of a type under T that
\* does not override name is Rejected, with a VirtualMethodError, whatever
\* minArity is.
C10_UnoverriddenRejectedBelowRoot ==
    \A T \in Types \ {Root} : \A r \in Requirements(T) :
        (/\ last.op = "checkVirtualMethods"
         /\ IsAncestor(T, last.self)
         /\ instance_method(methods, superclass, last.self, r[1]) = DummyMethod)
        => (Rejected /\ last.res.exc = "MUES::VirtualMethodError")

\* An instance of Derived rejected for a requirement {m1, 0} of Base that
\* nothing overrides.
C10_Witness ==
    /\ Rejected
    /\ last.self = "Derived"
    /\ <<"m1", 0>> \in Requirements("Base")
    /\ instance_method(methods, superclass, "Derived", "m1") = DummyMethod

-----------------------------------------------------------------------------
(* The capability mask over all the operations                             *)

\* The mask of BlankObject i: the capability field of the struct its data
\* pointer leads to, when it has one.
Mask(b, m, i) ==
    IF b[i].data = 0 THEN [set |-> FALSE, capability |-> 0]
    ELSE [set |-> TRUE, capability |-> m[b[i].data].capability]

SuccessfulSet(i) ==
    last.op = "capability=" /\ last.self = i /\ last.res = Ok

-----------------------------------------------------------------------------
(* The method the check resolves                                           *)

\* The arity of name as an instance of class S answers it: the first
\* definition from S up, normalized as the check normalizes it.
ResolvedArity(S, name) ==
    NormalizeArity(instance_method(methods, superclass, S, name).arity)

\* C12 as stated: when checkVirtualMethods on an instance of S consults an
\* entry {name, minArity} recorded on an ancestor A of S, the arity it
\* compares with minArity is the arity of name as resolved on S, the
\* most-derived override.
C12_Original ==
    last.op = "checkVirtualMethods" =>
        \A i \in DOMAIN last.consulted :
            (last.consulted[i].klass # last.self /\ last.consulted[i].found) =>
                last.consulted[i].actualArity =
                    ResolvedArity(last.self, last.consulted[i].name)

-----------------------------------------------------------------------------
(* The walk of the check                                                   *)

\* The classes from S up to, and without, MUES::Object.
Chain(S) ==
    {Ancestors(superclass, S)[i] : i \in DOMAIN Ancestors(superclass, S)} \ {Root}

\* The tables with those of the classes outside keep emptied.
OnlyTablesOf(vm, keep) ==
    [t \in Types |-> IF t \in keep THEN vm[t] ELSE [defined |-> FALSE, hash |-> <<>>]]

WalkDone == last.op = "walk" /\ last.done

WalkRunning == last.op = "walk" /\ ~last.done

C13_Consults ==
    last.op = "walk" =>
        /\ \A i \in DOMAIN last.consulted :
               last.consulted[i].klass \in Chain(last.self)
        /\ last.done =>
               /\ last.res = mues_check_virtual_methods(
                                 methods, superclass,
                                 OnlyTablesOf(virtualMethods, Chain(last.self)),
                                 last.self)
               /\ last.res = mues_check_virtual_methods(
                                 methods, superclass, virtualMethods, last.self)
               /\ (\A t \in Chain(last.self) : virtualMethods[t].hash = <<>>) =>
                      last.res = Ok

\* C13: checkVirtualMethods on an instance of S ends, whatever the tables, and
\* consults only the entries of the classes from S up to MUES::Object
\* excluded: its outcome is the one it has with the tables of MUES::Object and
\* of the classes off that chain emptied, and it returns without an exception
\* when no class on the chain has an entry.
C13_WalkTerminatesOnChain ==
    [](C13_Consults) /\ (WalkRunning ~> WalkDone)

\* A check of an instance of Base that has returned without an exception
\* although MUES::Object and Derived, off its chain, have entries.
C13_Witness ==
    /\ WalkDone
    /\ last.self = "Base"
    /\ last.res = Ok
    /\ virtualMethods[Root].hash # <<>>
    /\ virtualMethods["Derived"].hash # <<>>

=============================================================================
